---- MODULE Spec2Model ----
(***************************************************************************)
(* State-machine model of src/server.js: an Express application over a     *)
(* mariadb connection pool.                                                *)
(*                                                                         *)
(* Node runs one callback at a time; a request handler is interleaved with *)
(* other requests only where it awaits (pool.getConnection, conn.query)    *)
(* and between the middlewares of a route.  Each action below is one such  *)
(* uninterrupted stretch of code.                                          *)
(*                                                                         *)
(* The read routes (the only users of the pool) and the write routes (the  *)
(* only users of validation) share no state, so they are explored by two   *)
(* specifications, ReadSpec and WriteSpec, over the same variables.        *)
(***************************************************************************)
EXTENDS Integers, Sequences, FiniteSets, TLC

\* ----------------------------------------------------------------- bounds
\* Number of request slots: at most this many requests are in flight at a
\* time; a slot whose request is over is reused by the next request.
NumRequests == 2
\* Longest row sequence a SELECT returns.
MaxRows == 1

\* ------------------------------------------------------ program constants
\* mariadb.createPool({ ..., connectionLimit: 15 })
connectionLimit == 15

Requests == 1..NumRequests

ReadRoutes == {"GET /agents", "GET /companies", "GET /customers", "GET /orders"}

ValidatedRoutes == {"POST /agents", "PATCH /agents/:id", "PUT /agents/:id"}

WriteRoutes == ValidatedRoutes \cup {"DELETE /agents/:id"}

\* The application's middleware stack, in registration order (app.use /
\* app.METHOD calls from top to bottom of the file).  No body parser
\* (express.json / body-parser) is ever registered.
appStack ==
    << "errorHandler", "swaggerUi", "cors",
       "GET /agents", "POST /agents", "PATCH /agents/:id", "PUT /agents/:id",
       "DELETE /agents/:id", "GET /companies", "GET /customers", "GET /orders" >>

StackIndex(layer) == CHOOSE i \in DOMAIN appStack : appStack[i] = layer

\* The formal parameters of each route's handler function.  The read
\* handlers are declared (req, res); the others (req, res, next).
HandlerParams(rt) ==
    IF rt \in ReadRoutes THEN {"req", "res"} ELSE {"req", "res", "next"}

\* ------------------------------------------------------------ request body
Fields == {"AGENT_CODE", "AGENT_NAME"}

\* What the client put under a field of the JSON body it sent.
Kinds == {"absent", "string", "number"}

Bodies == [Fields -> Kinds]

\* req.body as the route sees it.  Express leaves req.body undefined unless
\* a body-parsing middleware ran before the route; reading a field of it
\* through express-validator then yields undefined, as for an absent field.
BodyParserInstalled ==
    \E i \in DOMAIN appStack : appStack[i] \in {"express.json", "bodyParser.json"}

ReqBody(raw) ==
    IF BodyParserInstalled THEN raw ELSE [f \in Fields |-> "absent"]

\* Variant of the check below that lets a missing value through:
IsStringLoose(v) == v # "number"

\* body(f).isString(): the value must be of type string.
IsString(v) == v = "string"

\* The middlewares of a route, in order.
Validator(f) == [kind |-> "validator", field |-> f]

RouteChain(rt) ==
    CASE rt = "POST /agents" ->
            << Validator("AGENT_CODE"), Validator("AGENT_NAME"),
               [kind |-> "validateRequest", field |-> ""],
               [kind |-> "handler", field |-> ""] >>
      [] rt \in {"PATCH /agents/:id", "PUT /agents/:id"} ->
            << Validator("AGENT_NAME"),
               [kind |-> "validateRequest", field |-> ""],
               [kind |-> "handler", field |-> ""] >>
      [] OTHER -> << [kind |-> "handler", field |-> ""] >>

Chains == [rt \in ReadRoutes \cup WriteRoutes |-> RouteChain(rt)]

Chain(rt) == Chains[rt]

\* The fields a route's validators check.
RequiredFields(rt) ==
    {Chain(rt)[i].field : i \in {j \in DOMAIN Chain(rt) : Chain(rt)[j].kind = "validator"}}

\* The bodies sent to route rt: any content under the fields the route
\* declares, nothing under the others.
RouteBodies ==
    [rt \in WriteRoutes |->
        {b \in Bodies : \A f \in Fields \ RequiredFields(rt) : b[f] = "absent"}]

BodiesOf(rt) == RouteBodies[rt]

Confirmation(rt) ==
    CASE rt = "POST /agents" -> "Agent created successfully"
      [] rt = "PATCH /agents/:id" -> "Agent updated successfully"
      [] rt = "PUT /agents/:id" -> "Agent replaced successfully"
      [] rt = "DELETE /agents/:id" -> "Agent deleted successfully"
      [] OTHER -> ""

\* -------------------------------------------------------------- query rows
\* The row sequences a SELECT may return; <<>> is the empty table.
RowSeqs == {[i \in 1..n |-> i] : n \in 0..MaxRows}

\* ------------------------------------------------------------------- state
VARIABLES
    runtime,   \* the framework/runtime the application is deployed on
    alive,     \* the Node process is running
    inUse,     \* pool: connections checked out and not released
    queue,     \* pool: getConnection calls waiting for a connection, FIFO
    rq         \* per request slot: the request and its response so far

vars == << runtime, alive, inUse, queue, rq >>

\* What happens to the rejected promise of an async handler is decided by
\* the installed Express major version and Node's unhandled-rejection mode,
\* neither of which the repository pins:
\*   express4-warn   the rejection is only reported; nothing answers
\*   express4-throw  the rejection terminates the process
\*   express5        the router forwards the rejection to next(err)
Runtimes == {"express4-warn", "express4-throw", "express5"}

Fresh ==
    [ route |-> "none", pc |-> "idle", step |-> 0,
      raw |-> [f \in Fields |-> "absent"], errors |-> << >>,
      conn |-> FALSE, acquired |-> 0, released |-> 0, queries |-> 0,
      gotRows |-> FALSE, rows |-> << >>, failure |-> "none",
      handlerRan |-> FALSE,
      status |-> 0, bodyKind |-> "none", bodyRows |-> << >>,
      bodyErrors |-> << >>, bodyText |-> "", sentBy |-> "none",
      responses |-> 0 ]

Init ==
    /\ runtime \in Runtimes
    /\ alive = TRUE
    /\ inUse = 0
    /\ queue = << >>
    /\ rq = [r \in Requests |-> Fresh]

\* The handling of the request is over: it was answered, or nothing is
\* left that would answer it.
Ended(q) == q.pc \in {"done", "abandoned"}

\* The slot holds no request that is still being handled.
Free(q) == q.pc = "idle" \/ Ended(q)

\* The request/response cycle of an ended request is over; req and res are
\* dropped and the slot can take the next request.
Forget(r) ==
    /\ alive
    /\ Ended(rq[r])
    /\ rq' = [rq EXCEPT ![r] = Fresh]
    /\ UNCHANGED << runtime, alive, inUse, queue >>

Remove(s, r) == SelectSeq(s, LAMBDA x : x # r)

\* ---------------------------------------------------------------- responses
\* res.status(code).json(...) / res.send(...) by component `who`.
Respond(q, code, kind, who) ==
    [q EXCEPT !.status = code, !.bodyKind = kind, !.sentBy = who,
              !.responses = @ + 1]

\* res.json(rows)
SendRows(q) ==
    [Respond(q, 200, "rows", "handler") EXCEPT !.bodyRows = q.rows]

\* res.status(400).json({ errors: errors.array() })
SendErrors(q) ==
    [Respond(q, 400, "errors", "validateRequest") EXCEPT !.bodyErrors = q.errors]

\* res.send('Agent ... successfully')
SendText(q) ==
    [Respond(q, 200, "text", "handler") EXCEPT !.bodyText = Confirmation(q.route)]

\* app.use((err, req, res, next) => { console.error; res.status(500).json })
errorHandler(q) == Respond(q, 500, "genericError", "errorHandler")

\* Express's built-in last-resort handler: 500 with its own HTML page
\* (the error's stack outside production).
finalhandler(q) == Respond(q, 500, "finalhandlerPage", "finalhandler")

\* next(err) issued for route rt: Express continues down the stack from the
\* route's layer, and the first error-handling middleware after it answers.
ErrorHandlersAfter(rt) ==
    {i \in DOMAIN appStack : i > StackIndex(rt) /\ appStack[i] = "errorHandler"}

DispatchError(q) ==
    IF ErrorHandlersAfter(q.route) # {} THEN errorHandler(q) ELSE finalhandler(q)

\* The rejected promise of an async handler.  Express 5's router catches it
\* and calls next(err) on the handler's behalf.  Express 4 ignores the
\* promise: nothing answers the request, now or later.
Rejected(q) ==
    IF runtime = "express5"
    THEN [DispatchError(q) EXCEPT !.pc = "done"]
    ELSE [q EXCEPT !.pc = "abandoned"]

\* The catch block of a handler: next(err).  Where the handler has no
\* `next` parameter the call itself throws a ReferenceError, which rejects
\* the handler's promise.
Catch(q, why) ==
    IF "next" \in HandlerParams(q.route)
    THEN [DispatchError([q EXCEPT !.failure = why]) EXCEPT !.pc = "done"]
    ELSE Rejected([q EXCEPT !.failure = why])

\* Node's policy for a rejection nothing handled: report it and carry on,
\* or raise it as an uncaught exception, which ends the process.
Survives(q) == ~(q.pc = "abandoned" /\ runtime = "express4-throw")

\* ============================================================ read routes
\* app.get('/agents' | '/companies' | '/customers' | '/orders',
\*         async (req, res) => { try { ... } catch (err) { next(err) } })

\* The request reaches its route and the handler runs up to its first
\* await: pool.getConnection() is called and queued by the pool.  Variant
\* in which a full pool refuses the call at once instead of queueing it:
ReceiveReadFailFast(r, rt) ==
    /\ alive
    /\ rq[r].pc = "idle"
    /\ IF inUse >= connectionLimit
       THEN /\ rq' = [rq EXCEPT ![r] =
                        Catch([Fresh EXCEPT !.route = rt, !.handlerRan = TRUE],
                              "acquire")]
            /\ queue' = queue
            /\ alive' = Survives(rq'[r])
       ELSE /\ rq' = [rq EXCEPT ![r] =
                        [Fresh EXCEPT !.route = rt, !.handlerRan = TRUE,
                                      !.pc = "getConnection"]]
            /\ queue' = Append(queue, r)
            /\ alive' = alive
    /\ UNCHANGED << runtime, inUse >>

ReceiveRead(r, rt) ==
    /\ alive
    /\ rq[r].pc = "idle"
    /\ rq' = [rq EXCEPT ![r] =
                [Fresh EXCEPT !.route = rt, !.handlerRan = TRUE,
                              !.pc = "getConnection"]]
    /\ queue' = Append(queue, r)
    /\ UNCHANGED << runtime, alive, inUse >>

\* const conn = await pool.getConnection() resolves: the pool serves its
\* oldest waiting call once fewer than connectionLimit connections are out.
\* The handler resumes and calls conn.query(...), its second await.
getConnectionResolve(r) ==
    /\ alive
    /\ rq[r].pc = "getConnection"
    /\ queue # << >> /\ Head(queue) = r
    /\ inUse < connectionLimit
    /\ inUse' = inUse + 1
    /\ queue' = Tail(queue)
    /\ rq' = [rq EXCEPT ![r] =
                [@ EXCEPT !.conn = TRUE, !.acquired = @ + 1,
                          !.queries = @ + 1, !.pc = "query"]]
    /\ UNCHANGED << runtime, alive >>

\* await pool.getConnection() rejects (the pool's acquire timeout elapsed,
\* or no connection to the database could be made): control enters catch.
getConnectionReject(r) ==
    /\ alive
    /\ rq[r].pc = "getConnection"
    /\ queue' = Remove(queue, r)
    /\ rq' = [rq EXCEPT ![r] = Catch(@, "acquire")]
    /\ alive' = Survives(rq'[r])
    /\ UNCHANGED << runtime, inUse >>

\* The statements after the query: conn.release(); res.setHeader(...);
\* res.json(rows).  Variant that answers an empty result with 404:
ReadSuccessNotFound(q) ==
    IF q.rows = << >>
    THEN [Respond([q EXCEPT !.conn = FALSE, !.released = @ + 1],
                  404, "none", "handler") EXCEPT !.pc = "done"]
    ELSE [SendRows([q EXCEPT !.conn = FALSE, !.released = @ + 1])
            EXCEPT !.pc = "done"]

ReadSuccess(q) ==
    [SendRows([q EXCEPT !.conn = FALSE, !.released = @ + 1])
        EXCEPT !.pc = "done"]

\* await conn.query('SELECT * FROM ...') resolves with rows rs.
queryResolve(r, rs) ==
    /\ alive
    /\ rq[r].pc = "query"
    /\ rq' = [rq EXCEPT ![r] = ReadSuccess([@ EXCEPT !.gotRows = TRUE, !.rows = rs])]
    /\ inUse' = inUse - (rq'[r].released - rq[r].released)
    /\ UNCHANGED << runtime, alive, queue >>

\* await conn.query(...) rejects: control jumps to catch, past conn.release().
queryReject(r) ==
    /\ alive
    /\ rq[r].pc = "query"
    /\ rq' = [rq EXCEPT ![r] = Catch(@, "query")]
    /\ alive' = Survives(rq'[r])
    /\ UNCHANGED << runtime, inUse, queue >>

NextRead ==
    \E r \in Requests :
        \/ \E rt \in ReadRoutes : ReceiveRead(r, rt)
        \/ getConnectionResolve(r)
        \/ getConnectionReject(r)
        \/ \E rs \in RowSeqs : queryResolve(r, rs)
        \/ queryReject(r)
        \/ Forget(r)

ReadSpec == Init /\ [][NextRead]_vars

\* =========================================================== write routes
\* app.post('/agents', [...]), app.patch('/agents/:id', [...]),
\* app.put('/agents/:id', [...]), app.delete('/agents/:id', ...)

Current(q) == Chain(q.route)[q.step]

\* The body(field).isString() middlewares at the head of the route, run in
\* order from step i: each records an error for its field when the check
\* fails and passes control on.
RECURSIVE RunValidators(_, _)
RunValidators(q, i) ==
    IF i \in DOMAIN Chain(q.route) /\ Chain(q.route)[i].kind = "validator"
    THEN LET f == Chain(q.route)[i].field IN
         RunValidators([q EXCEPT !.errors = IF IsString(ReqBody(q.raw)[f])
                                            THEN @ ELSE Append(@, f),
                                 !.step = i + 1],
                       i + 1)
    ELSE q

\* The request, carrying body b, reaches its route; the route's validators
\* run and hand over to the middleware that follows them.
ReceiveWrite(r, rt, b) ==
    /\ alive
    /\ rq[r].pc = "idle"
    /\ rq' = [rq EXCEPT ![r] =
                RunValidators([Fresh EXCEPT !.route = rt, !.raw = b,
                                            !.pc = "chain", !.step = 1], 1)]
    /\ UNCHANGED << runtime, alive, inUse, queue >>

\* validateRequest.  Variant that answers 400 and still calls next():
validateRequestFallThrough(q) ==
    IF q.errors # << >>
    THEN [SendErrors(q) EXCEPT !.step = @ + 1]
    ELSE [q EXCEPT !.step = @ + 1]

validateRequest(q) ==
    IF q.errors # << >>
    THEN [SendErrors(q) EXCEPT !.pc = "done"]
    ELSE [q EXCEPT !.step = @ + 1]

RunValidateRequest(r) ==
    /\ alive
    /\ rq[r].pc = "chain"
    /\ Current(rq[r]).kind = "validateRequest"
    /\ rq' = [rq EXCEPT ![r] = validateRequest(@)]
    /\ UNCHANGED << runtime, alive, inUse, queue >>

\* async (req, res, next) => { try { res.send('Agent ... successfully') }
\*                             catch (err) { next(err) } }
StubHandler(r) ==
    /\ alive
    /\ rq[r].pc = "chain"
    /\ Current(rq[r]).kind = "handler"
    /\ rq' = [rq EXCEPT ![r] =
                [SendText([@ EXCEPT !.handlerRan = TRUE]) EXCEPT !.pc = "done"]]
    /\ UNCHANGED << runtime, alive, inUse, queue >>

NextWrite ==
    \E r \in Requests :
        \/ \E rt \in WriteRoutes : \E b \in BodiesOf(rt) : ReceiveWrite(r, rt, b)
        \/ RunValidateRequest(r)
        \/ StubHandler(r)
        \/ Forget(r)

WriteSpec == Init /\ [][NextWrite]_vars

\* ================================================================== claims
Range(seq) == {seq[i] : i \in DOMAIN seq}

IsRead(q) == q.route \in ReadRoutes

IsValidated(q) == q.route \in ValidatedRoutes

\* The request's body lacks a required field or carries it as a non-string.
LacksField(q) == \E f \in RequiredFields(q.route) : q.raw[f] # "string"

WellFormed(q) == \A f \in RequiredFields(q.route) : q.raw[f] = "string"

\* C1: a connection acquired by a read request is released exactly once
\* whether the query succeeds or fails: every ended request has as many
\* releases as acquisitions, and once all requests have ended no connection
\* is checked out.
C1_ReleasedOnEveryPath ==
    /\ \A r \in Requests :
          (IsRead(rq[r]) /\ Ended(rq[r])) =>
              (rq[r].released = rq[r].acquired /\ ~rq[r].conn)
    /\ (\A r \in Requests : Free(rq[r])) => inUse = 0

\* C2: a read request whose connection acquisition or query failed is
\* answered with status 500; it is not left without a response.
C2_FailureAnswered500 ==
    \A r \in Requests :
        (IsRead(rq[r]) /\ rq[r].failure # "none") => rq[r].status = 500

\* C3: a request to a validated write route whose body lacks a required
\* field (or has it as a non-string) never acquires a connection or runs a
\* query, and ends with status 400 and an error list naming that field.
C3_InvalidBodyRejected ==
    \A r \in Requests :
        (IsValidated(rq[r]) /\ LacksField(rq[r])) =>
            /\ rq[r].acquired = 0 /\ rq[r].queries = 0 /\ ~rq[r].conn
            /\ inUse = 0
            /\ rq[r].status \in {0, 400}
            /\ Ended(rq[r]) =>
                  /\ rq[r].status = 400
                  /\ rq[r].bodyKind = "errors"
                  /\ \A f \in RequiredFields(rq[r].route) :
                        rq[r].raw[f] # "string" => f \in Range(rq[r].bodyErrors)

C3_Witness ==
    \E r \in Requests :
        /\ IsValidated(rq[r]) /\ LacksField(rq[r]) /\ Ended(rq[r])
        /\ rq[r].raw["AGENT_NAME"] = "number"
        /\ rq[r].status = 400

\* C4: a request to a validated write route whose body has every required
\* field as a string passes validation and is answered by the route handler
\* with 200 and the route's confirmation text.
C4_ValidBodyConfirmed ==
    \A r \in Requests :
        (IsValidated(rq[r]) /\ WellFormed(rq[r]) /\ Ended(rq[r])) =>
            /\ rq[r].status = 200
            /\ rq[r].bodyKind = "text"
            /\ rq[r].bodyText = Confirmation(rq[r].route)
            /\ rq[r].sentBy = "handler"

\* C5: a read request that arrives while all connectionLimit connections are
\* checked out is suspended in the pool's queue, neither failed nor answered;
\* a suspended request is resumed with a connection only when fewer than
\* connectionLimit are out, never more than connectionLimit are out, and
\* whenever a connection is free the oldest suspended request can take it.
C5_Step ==
    /\ \A r \in Requests :
          /\ (rq[r].pc = "idle" /\ rq'[r].pc # "idle" /\ inUse = connectionLimit) =>
                /\ rq'[r].pc = "getConnection"
                /\ r \in Range(queue')
                /\ rq'[r].failure = "none"
                /\ rq'[r].status = 0
          /\ (rq[r].pc = "getConnection" /\ rq'[r].conn) =>
                /\ inUse < connectionLimit
                /\ inUse' = inUse + 1
                /\ rq'[r].pc = "query"
    /\ inUse' <= connectionLimit
    /\ (alive /\ queue # << >> /\ inUse < connectionLimit) =>
          ENABLED getConnectionResolve(Head(queue))

C6_CentralErrorHandler ==
    \A r \in Requests :
        rq[r].failure # "none" =>
            /\ rq[r].sentBy = "errorHandler"
            /\ rq[r].status = 500
            /\ rq[r].bodyKind = "genericError"
            /\ rq[r].responses = 1

C8_LinearOrder ==
    \A r \in Requests :
        IsRead(rq[r]) =>
            /\ rq[r].queries <= 1
            /\ rq[r].queries = 1 => rq[r].acquired = 1
            /\ rq[r].pc = "query" => rq[r].conn
            /\ (Ended(rq[r]) /\ rq[r].queries = 1) => rq[r].released = 1
            /\ rq[r].status # 0 => ~rq[r].conn

\* C9: requests are independent of the history of earlier requests: once
\* every earlier request has ended, a new read request waiting for a
\* connection finds one free.
C9_IndependentOfHistory ==
    \A r \in Requests :
        ( /\ rq[r].pc = "getConnection"
          /\ \A e \in Requests \ {r} : Free(rq[e]) ) =>
            inUse < connectionLimit

\* C10: every request receives at most one response, and a request that
\* validateRequest answered with 400 has ended without its route handler
\* having run.
C10_AtMostOneResponse ==
    \A r \in Requests :
        /\ rq[r].responses <= 1
        /\ rq[r].sentBy = "validateRequest" =>
              /\ ~rq[r].handlerRan
              /\ Ended(rq[r])
              /\ rq[r].status = 400

C10_Witness ==
    \E r \in Requests :
        /\ rq[r].route = "PUT /agents/:id"
        /\ rq[r].sentBy = "validateRequest" /\ rq[r].responses = 1
        /\ \E e \in Requests :
              rq[e].route = "DELETE /agents/:id" /\ rq[e].status = 200

====
